---- MODULE Spec2Model ----
(***************************************************************************)
(* Exam-proctoring decision core: the violation classifier of app.py, the  *)
(* violation summary upsert of database/mysql_service.py, the /api/monitor *)
(* handler that drives both, and the face store of cheating_detection with *)
(* the registration, deletion and verification endpoints of app.py.        *)
(*                                                                         *)
(* Strings of the source that carry Vietnamese diacritics are written in   *)
(* plain ASCII.  A flag (a free-text string in the source) is a sequence   *)
(* of phrases; "x in flag.lower()" is a search for the phrase x among the  *)
(* lower-cased phrases of the flag.                                        *)
(***************************************************************************)
EXTENDS Integers, Sequences, FiniteSets, TLC

(***************************************************************************)
(* Bounds of the model.                                                    *)
(***************************************************************************)
MaxFaces == 2
MaxObjects == 1
MaxFlags == 2
MaxTime == 2        \* timestamps are 1..MaxTime

(***************************************************************************)
(* Inputs: the signal bundle PIPELINE.analyze returns.                     *)
(***************************************************************************)
FaceLabels == {"Unknown", "Alice"}

ObjectLabels == {"cell phone"}

FlagPool ==
    { <<"gaze", "looking left">>,
      <<"Gaze", "looking left">>,
      <<"Gaze", "looking up", "looking right">>,
      <<"Gaze", "looking down", "looking left">>,
      <<"Gaze", "looking right">>,
      <<"Gaze", "center">>,
      <<"Gaze", "away">>,
      <<"Head orientation", "looking left">>,
      <<"Head orientation", "looking up", "looking down">>,
      <<"Head orientation", "looking down", "looking right">>,
      <<"Head orientation", "looking right">>,
      <<"Head orientation", "tilted">>,
      <<"Head orientation", "Gaze", "looking up">>,
      <<"Gaze", "center", "Head orientation", "looking right">>,
      <<"looking left">>,
      <<"Suspicious object">> }

SeqsUpTo(S, n) == UNION { [1..k -> S] : k \in 0..n }

FaceBundles == SeqsUpTo([label : FaceLabels], MaxFaces)

ObjectBundles == SeqsUpTo([label : ObjectLabels], MaxObjects)

FlagBundles == SeqsUpTo(FlagPool, MaxFlags)

Statuses == {"clear", "suspicious"}

Submissions == {"sub1", "sub2"}

Severities == {"critical", "high", "medium", "low"}

Times == 1..MaxTime

\* the calls of update_violation_summary of a run, each made by a thread of its own
Callers == {"a1", "a2", "a3"}

\* the requests to /api/monitor of a run, each handled by a thread of its own
Procs == {"r1", "r2"}

\* detection results of the monitored frames
MonitorResults ==
    { [status |-> "clear", faces |-> <<[label |-> "Alice"]>>, objects |-> <<>>,
       flags |-> <<>>],
      [status |-> "suspicious", faces |-> <<[label |-> "Alice"]>>, objects |-> <<>>,
       flags |-> << <<"Gaze", "looking left">> >>],
      [status |-> "suspicious", faces |-> <<[label |-> "Alice"], [label |-> "Unknown"]>>,
       objects |-> <<[label |-> "cell phone"]>>,
       flags |-> << <<"Suspicious object">> >>],
      [status |-> "suspicious", faces |-> <<>>, objects |-> <<>>, flags |-> <<>>] }

VARIABLES
    result,       \* classifier run: the detection result passed to _classify_violation
    classified,   \* classifier run: <<violation_type, severity>> returned, or NotClassified
    violation_summary,        \* table violation_summary: a set of rows
    simultaneous_assignment,  \* how the server evaluates the assignments of an UPDATE list
    agg,          \* aggregator run: per caller, its call of update_violation_summary
    agg_ok,       \* history: per submission and severity, the calls that returned True
    agg_raced,    \* history: submissions with a statement run while another call was in flight
    violations,   \* table violations: the rows in insertion order, id = position
    s3_objects,   \* number of images in the bucket
    now,          \* datetime.now()
    req,          \* monitor run: per request, the locals of monitor_exam handling it
    embeddings,   \* FaceDatabase._embeddings: the entries of the dict in insertion order
    metadata,     \* FaceDatabase._metadata: the entries of the dict in insertion order
    db_file,      \* the pickle file at FaceDatabase.path
    loaded,       \* what the last FaceDatabase built on that path by another process got
    thread        \* face store run: per request thread, the locals of the call it handles

NotClassified == <<"-", "-">>

classifier_vars == <<result, classified>>

db_vars == <<violation_summary, simultaneous_assignment>>

mon_vars == <<violations, s3_objects, now, req>>

agg_vars == <<agg, agg_ok, agg_raced>>

store_vars == <<embeddings, metadata, db_file, loaded, thread>>

vars == <<result, classified, violation_summary, simultaneous_assignment,
          agg, agg_ok, agg_raced,
          violations, s3_objects, now, req,
          embeddings, metadata, db_file, loaded, thread>>

(***************************************************************************)
(* str.lower() on the phrases of a flag.                                   *)
(***************************************************************************)
LowerPhrase(p) ==
    CASE p = "Gaze" -> "gaze"
      [] p = "Head orientation" -> "head orientation"
      [] p = "Suspicious object" -> "suspicious object"
      [] OTHER -> p

Lower(flag) == [i \in DOMAIN flag |-> LowerPhrase(flag[i])]

\* "sub in text" for a text made of phrases
Contains(text, sub) == \E i \in DOMAIN text : text[i] = sub

(***************************************************************************)
(* _classify_violation, app.py 522-586                                     *)
(***************************************************************************)
\* a slip: the left and right labels exchanged
GazeTypeSwapped(flag_lower) ==
    IF Contains(flag_lower, "looking up") THEN "Mat nhin len"
    ELSE IF Contains(flag_lower, "looking down") THEN "Mat nhin xuong"
    ELSE IF Contains(flag_lower, "looking left") THEN "Mat nhin phai"
    ELSE IF Contains(flag_lower, "looking right") THEN "Mat nhin trai"
    ELSE "Mat nhin sang cho khac"

GazeType(flag_lower) ==
    IF Contains(flag_lower, "looking up") THEN "Mat nhin len"
    ELSE IF Contains(flag_lower, "looking down") THEN "Mat nhin xuong"
    ELSE IF Contains(flag_lower, "looking left") THEN "Mat nhin trai"
    ELSE IF Contains(flag_lower, "looking right") THEN "Mat nhin phai"
    ELSE "Mat nhin sang cho khac"

HeadType(flag_lower) ==
    IF Contains(flag_lower, "looking up") THEN "Dau ngang len"
    ELSE IF Contains(flag_lower, "looking down") THEN "Dau cui xuong"
    ELSE IF Contains(flag_lower, "looking left") THEN "Dau quay trai"
    ELSE IF Contains(flag_lower, "looking right") THEN "Dau quay phai"
    ELSE "Cu dong dau bat thuong"

\* a slip: the exclusion of centered gaze forgotten
IsGazeFlagAnyGaze(flag_lower) == Contains(flag_lower, "gaze")

IsGazeFlag(flag_lower) ==
    Contains(flag_lower, "gaze") /\ ~Contains(flag_lower, "center")

IsHeadFlag(flag_lower) == Contains(flag_lower, "head orientation")

\* a slip: the head-orientation test of the loop body placed before the gaze test
RECURSIVE ScanFlagsHeadFirst(_, _)
ScanFlagsHeadFirst(flags, i) ==
    IF i > Len(flags) THEN <<"Vi pham khac", "medium">>
    ELSE LET flag_lower == Lower(flags[i])
         IN  IF IsHeadFlag(flag_lower) THEN <<HeadType(flag_lower), "medium">>
             ELSE IF IsGazeFlag(flag_lower) THEN <<GazeType(flag_lower), "medium">>
             ELSE ScanFlagsHeadFirst(flags, i + 1)

\* the for loop over flags, from position i on
RECURSIVE ScanFlags(_, _)
ScanFlags(flags, i) ==
    IF i > Len(flags) THEN <<"Vi pham khac", "medium">>
    ELSE LET flag_lower == Lower(flags[i])
         IN  IF IsGazeFlag(flag_lower) THEN <<GazeType(flag_lower), "medium">>
             ELSE IF IsHeadFlag(flag_lower) THEN <<HeadType(flag_lower), "medium">>
             ELSE ScanFlags(flags, i + 1)

\* a slip: the objects rule placed before the face rules
classify_violation_objects_first(res, flags) ==
    LET faces == res.faces
        objects == res.objects
    IN  IF objects # <<>> THEN <<"Phat hien vat dung kha nghi", "critical">>
        ELSE IF Len(faces) > 1 THEN <<"Nhieu khuon mat trong khung hinh", "critical">>
        ELSE IF Len(faces) = 0 THEN <<"Khong phat hien khuon mat", "critical">>
        ELSE IF faces[1].label = "Unknown" THEN <<"Phat hien nguoi la", "critical">>
        ELSE ScanFlags(flags, 1)

\* a classifier with a third grade: several faces are "high"
classify_violation_graded(res, flags) ==
    LET faces == res.faces
        objects == res.objects
    IN  IF Len(faces) > 1 THEN <<"Nhieu khuon mat trong khung hinh", "high">>
        ELSE IF Len(faces) = 0 THEN <<"Khong phat hien khuon mat", "critical">>
        ELSE IF faces[1].label = "Unknown" THEN <<"Phat hien nguoi la", "critical">>
        ELSE IF objects # <<>> THEN <<"Phat hien vat dung kha nghi", "critical">>
        ELSE ScanFlags(flags, 1)

classify_violation(res, flags) ==
    LET faces == res.faces
        objects == res.objects
    IN  IF Len(faces) > 1 THEN <<"Nhieu khuon mat trong khung hinh", "critical">>
        ELSE IF Len(faces) = 0 THEN <<"Khong phat hien khuon mat", "critical">>
        ELSE IF faces[1].label = "Unknown" THEN <<"Phat hien nguoi la", "critical">>
        ELSE IF objects # <<>> THEN <<"Phat hien vat dung kha nghi", "critical">>
        ELSE ScanFlags(flags, 1)

(***************************************************************************)
(* MySQLService.update_violation_summary, mysql_service.py 105-169: one    *)
(* INSERT ... ON DUPLICATE KEY UPDATE statement on an autocommit           *)
(* connection.  The columns user_id and exam_period_id are written once by *)
(* the INSERT and never read; they are left out.                           *)
(***************************************************************************)
\* CASE WHEN %s = '<bucket>' THEN 1 ELSE 0 END
CaseWhen(severity, bucket) == IF severity = bucket THEN 1 ELSE 0

\* the VALUES list, lines 136-142
InsertValues(submission_id, severity, detected_at) ==
    [ submission_id      |-> submission_id,
      total_violations   |-> 1,
      critical_count     |-> CaseWhen(severity, "critical"),
      high_count         |-> CaseWhen(severity, "high"),
      medium_count       |-> CaseWhen(severity, "medium"),
      low_count          |-> CaseWhen(severity, "low"),
      first_violation_at |-> detected_at,
      last_violation_at  |-> detected_at,
      risk_score         |-> 0 ]

\* a slip: the row replaced by the VALUES list (REPLACE INTO)
OnDuplicateKeyUpdateReplace(row, severity, detected_at, simultaneous) ==
    InsertValues(row.submission_id, severity, detected_at)

\* a slip: first_violation_at assigned in the update list too
OnDuplicateKeyUpdateTouchFirst(row, severity, detected_at, simultaneous) ==
    [ row EXCEPT
        !.total_violations = row.total_violations + 1,
        !.critical_count = row.critical_count + CaseWhen(severity, "critical"),
        !.high_count = row.high_count + CaseWhen(severity, "high"),
        !.medium_count = row.medium_count + CaseWhen(severity, "medium"),
        !.low_count = row.low_count + CaseWhen(severity, "low"),
        !.first_violation_at = detected_at,
        !.last_violation_at = detected_at ]

\* The assignment list, lines 144-155.  MySQL evaluates the assignments from
\* left to right, so the column names in the risk_score expression denote the
\* counts already incremented by the assignments before it; a server that
\* evaluates the list simultaneously (MariaDB, SIMULTANEOUS_ASSIGNMENT) reads
\* the counts of the row as it was.
OnDuplicateKeyUpdate(row, severity, detected_at, simultaneous) ==
    LET critical_count == row.critical_count + CaseWhen(severity, "critical")
        high_count     == row.high_count + CaseWhen(severity, "high")
        medium_count   == row.medium_count + CaseWhen(severity, "medium")
        low_count      == row.low_count + CaseWhen(severity, "low")
        Seen(old, new) == IF simultaneous THEN old ELSE new
    IN  [ row EXCEPT
            !.total_violations = row.total_violations + 1,
            !.critical_count = critical_count,
            !.high_count = high_count,
            !.medium_count = medium_count,
            !.low_count = low_count,
            !.last_violation_at = detected_at,
            !.risk_score =
                (Seen(row.critical_count, critical_count)
                    + CaseWhen(severity, "critical")) * 50
                + (Seen(row.high_count, high_count) + CaseWhen(severity, "high")) * 10
                + (Seen(row.medium_count, medium_count)
                    + CaseWhen(severity, "medium")) * 10
                + (Seen(row.low_count, low_count) + CaseWhen(severity, "low")) * 10 ]

\* the rows the new row collides with: submission_id is the unique key of the table
DuplicateKeyRows(table, submission_id) ==
    {row \in table : row.submission_id = submission_id}

\* a slip: the update applied to every row of the table
ExecuteUpsertAllRows(table, submission_id, severity, detected_at, simultaneous) ==
    IF DuplicateKeyRows(table, submission_id) = {}
    THEN table \cup {InsertValues(submission_id, severity, detected_at)}
    ELSE {OnDuplicateKeyUpdate(row, severity, detected_at, simultaneous) : row \in table}

\* the table after cursor.execute(sql, ...), lines 130-164
ExecuteUpsert(table, submission_id, severity, detected_at, simultaneous) ==
    IF DuplicateKeyRows(table, submission_id) = {}
    THEN table \cup {InsertValues(submission_id, severity, detected_at)}
    ELSE {IF row \in DuplicateKeyRows(table, submission_id)
          THEN OnDuplicateKeyUpdate(row, severity, detected_at, simultaneous)
          ELSE row : row \in table}

(***************************************************************************)
(* The face store: cheating_detection/face_database.py and                 *)
(* face_recognition.py.                                                    *)
(*                                                                         *)
(* An embedding is a vector of two rational components x/d and y/d with    *)
(* d > 0; the record with d = 0 stands for None.  Arithmetic is exact:     *)
(* the rounding of float32 is not modelled.  A cosine similarity is the    *)
(* number num/sqrt(den2), kept as the pair so that scores and thresholds   *)
(* are compared without a square root.                                     *)
(***************************************************************************)
Vec(x, y) == [x |-> x, y |-> y, d |-> 1]

None == [x |-> 0, y |-> 0, d |-> 0]

Abs(n) == IF n < 0 THEN -n ELSE n

RECURSIVE Gcd(_, _)
Gcd(a, b) == IF b = 0 THEN a ELSE Gcd(b, a % b)

\* the vector with components x/d and y/d in lowest terms
Reduced(x, y, d) ==
    LET g == Gcd(Gcd(Abs(x), Abs(y)), d)
    IN  [x |-> x \div g, y |-> y \div g, d |-> d \div g]

RECURSIVE SumX(_)
SumX(vectors) ==
    IF vectors = <<>> THEN 0 ELSE Head(vectors).x + SumX(Tail(vectors))

RECURSIVE SumY(_)
SumY(vectors) ==
    IF vectors = <<>> THEN 0 ELSE Head(vectors).y + SumY(Tail(vectors))

\* a mean that forgets to divide: np.sum(vectors, axis=0)
SumOfVectors(vectors) == Reduced(SumX(vectors), SumY(vectors), 1)

\* np.mean(vectors, axis=0) of vectors with whole components
Mean(vectors) == Reduced(SumX(vectors), SumY(vectors), Len(vectors))

\* a similarity score: the number num / sqrt(den2)
Score(num, den2) == [num |-> num, den2 |-> den2]

Zero == Score(0, 1)           \* 0.0

MinusOne == Score(-1, 1)      \* -1.0

Square(n) == n * n

\* a > b for two scores
ScoreGreater(a, b) == a.num * Abs(a.num) * b.den2 > b.num * Abs(b.num) * a.den2

\* face_database.py 194-198 and 125: float(np.dot(_normalize(u), _normalize(v)));
\* _normalize leaves a vector of norm 0 as it is, and the product is then 0
Cosine(u, v) ==
    LET uu == Square(u.x) + Square(u.y)
        vv == Square(v.x) + Square(v.y)
    IN  IF uu = 0 \/ vv = 0 THEN Zero
        ELSE Score(u.x * v.x + u.y * v.y, uu * vv)

\* face_recognition.py 38: match_threshold = 0.5
match_threshold == Score(1, 4)

\* the thresholds a caller passes: 0.5 and 1.01; NoThreshold is None
NoThreshold == Score(0, 0)

Thresholds == {NoThreshold, Score(1, 4), Score(101, 10000)}

Names == {"An", "Binh"}

StudentIds == {"S1", "S2"}

East == Vec(1, 0)

North == Vec(0, 1)

West == Vec(-1, 0)

\* an image is the list of the faces the detector finds in it, each face with
\* its embedding or None
NoFaces == <<>>

OneFace(embedding) == <<[embedding |-> embedding]>>

TwoFaces(e1, e2) == <<[embedding |-> e1], [embedding |-> e2]>>

\* the image lists sent with a registration
ImageLists ==
    { <<>>,
      <<OneFace(East)>>,
      <<OneFace(East), OneFace(East), OneFace(East)>>,
      <<OneFace(East), OneFace(North), TwoFaces(North, East)>>,
      <<NoFaces, NoFaces, NoFaces>>,
      <<OneFace(None), OneFace(East), NoFaces>> }

\* the frames sent with a verification
Frames ==
    { NoFaces, OneFace(None), OneFace(East), OneFace(West), TwoFaces(None, East) }

\* face_recognition.py 111-124: the embeddings collected from the images, the
\* first face of each image that has one, when that face has an embedding
RECURSIVE CollectEmbeddings(_)
CollectEmbeddings(images) ==
    IF images = <<>> THEN <<>>
    ELSE LET faces == Head(images)
             rest == CollectEmbeddings(Tail(images))
         IN  IF faces = <<>> THEN rest
             ELSE IF faces[1].embedding = None THEN rest
             ELSE <<faces[1].embedding>> \o rest

(***************************************************************************)
(* A dict is the sequence of its entries [key, value] in insertion order.  *)
(***************************************************************************)
Keys(dict) == {dict[i].key : i \in 1..Len(dict)}

Has(dict, key) == key \in Keys(dict)

Position(dict, key) == CHOOSE i \in 1..Len(dict) : dict[i].key = key

Get(dict, key) == dict[Position(dict, key)].value

\* dict[key] = value: a new key goes last, a present key keeps its place
Put(dict, key, value) ==
    IF Has(dict, key)
    THEN [dict EXCEPT ![Position(dict, key)].value = value]
    ELSE Append(dict, [key |-> key, value |-> value])

\* del dict[key], for a key of the dict
Del(dict, key) ==
    LET i == Position(dict, key)
    IN  SubSeq(dict, 1, i - 1) \o SubSeq(dict, i + 1, Len(dict))

\* face_database.py 70-71
has_person(name) == Has(embeddings, name)

\* face_database.py 178-191: the first entry with that student_id, else NotFound
NotFound == "None"

find_by_student_id(student_id) ==
    LET hits == {i \in 1..Len(metadata) : metadata[i].value.student_id = student_id}
    IN  IF hits = {} THEN NotFound
        ELSE metadata[CHOOSE i \in hits : \A j \in hits : i <= j].key

\* face_database.py 112-130 in one piece, for a dict that does not change
\* while it is read: <<best_name, best_score>>
RECURSIVE IdentifyFrom(_, _, _, _, _)
IdentifyFrom(dict, i, query, best_name, best_score) ==
    IF i > Len(dict) THEN <<best_name, best_score>>
    ELSE LET score == Cosine(query, dict[i].value)
         IN  IF ScoreGreater(score, best_score)
             THEN IdentifyFrom(dict, i + 1, query, dict[i].key, score)
             ELSE IdentifyFrom(dict, i + 1, query, best_name, best_score)

identify(dict, query) ==
    IF dict = <<>> THEN <<"Unknown", Zero>>
    ELSE IdentifyFrom(dict, 1, query, "Unknown", MinusOne)

\* a dump that keeps the embeddings only, the old format of the file
PickledEmbeddingsOnly(e, m) == [state |-> "complete", embeddings |-> e, metadata |-> <<>>]

\* the content pickle.dump writes, face_database.py 58-63
Pickled(e, m) == [state |-> "complete", embeddings |-> e, metadata |-> m]

NoFile == [state |-> "absent", embeddings |-> <<>>, metadata |-> <<>>]

\* the file after open("wb") and before the dump has ended
Truncated == [state |-> "truncated", embeddings |-> <<>>, metadata |-> <<>>]

\* np.asarray(embedding, dtype=np.float32) and str(name) on what save wrote:
\* the arrays are float32 already and the names are strings
AsFloat32(dict) == [i \in 1..Len(dict) |-> [key |-> dict[i].key, value |-> dict[i].value]]

\* face_database.py 30-54: the store a FaceDatabase starts with, for a file that
\* is absent or complete
Load(file) ==
    IF file.state = "absent"
    THEN [embeddings |-> <<>>, metadata |-> <<>>]
    ELSE [embeddings |-> AsFloat32(file.embeddings), metadata |-> file.metadata]

(***************************************************************************)
(* Initial values.                                                         *)
(***************************************************************************)
NoResult == [status |-> "clear", faces |-> <<>>, objects |-> <<>>, flags |-> <<>>]

IdleCall == [pc |-> "idle", submission_id |-> "-", severity |-> "-",
             detected_at |-> 0, ret |-> "-"]

InitClassifier ==
    /\ result = NoResult
    /\ classified = NotClassified

InitDatabase ==
    /\ violation_summary = {}
    /\ simultaneous_assignment \in BOOLEAN

InitAgg ==
    /\ agg = [c \in Callers |-> IdleCall]
    /\ agg_ok = [s \in Submissions |-> [v \in Severities |-> 0]]
    /\ agg_raced = {}

NoResponse == [code |-> 0, status |-> "-"]

IdleRequest ==
    [ pc |-> "idle", submission_id |-> "-", result |-> NoResult,
      violation_type |-> "-", severity |-> "-", detected_at |-> 0,
      image_url |-> "-", violation_id |-> 0,
      inserted |-> 0, upserted |-> 0, failed |-> FALSE,   \* history of the call
      response |-> NoResponse ]

InitMonitor ==
    /\ violations = <<>>
    /\ s3_objects = 0
    /\ now = 1
    /\ req = [p \in Procs |-> IdleRequest]

(***************************************************************************)
(* The locals of a call on the face store.  message is the error or the    *)
(* message of the answer, cut down to the words that tell the answers      *)
(* apart.                                                                  *)
(***************************************************************************)
NoAnswer == [code |-> 0, message |-> "-", verified |-> FALSE, confidence |-> Zero,
             matched_name |-> "-", processed_images |-> 0,
             embeddings_used |-> 0]

Answer(code, message) == [NoAnswer EXCEPT !.code = code, !.message = message]

IdleThread ==
    [ pc |-> "idle", op |-> "-", name |-> "-", student_id |-> "-",
      n_images |-> 0,                   \* len(images) of a registration
      vectors |-> <<>>,                 \* the embeddings collected from the images
      count |-> 0,                      \* what FaceDatabase.add_person returned
      embedding |-> None,               \* the embedding of the face to verify
      faces |-> <<>>,                   \* the faces of the frame to verify
      threshold |-> NoThreshold,        \* verification_threshold
      i |-> 0, used |-> 0,              \* the iterator of identify: position, size of the dict
      best_name |-> "-", best_score |-> Zero,
      response |-> NoAnswer ]

\* the worker of a server that handles one call at a time, and two threads of a
\* server whose calls overlap
Worker == "w"

Overlapping == {"t1", "t2"}

Threads == {Worker} \cup Overlapping

InitStore ==
    /\ embeddings = <<>>
    /\ metadata = <<>>
    /\ db_file = NoFile
    /\ loaded = "loaded"
    /\ thread = [t \in Threads |-> IdleThread]

(***************************************************************************)
(* Specification of classifier runs: any bundle, then one call.            *)
(***************************************************************************)
InitClassify ==
    /\ result \in [status : Statuses, faces : FaceBundles,
                   objects : ObjectBundles, flags : FlagBundles]
    /\ classified = NotClassified
    /\ InitDatabase
    /\ simultaneous_assignment = FALSE
    /\ InitAgg
    /\ InitMonitor
    /\ InitStore

Classify ==
    /\ classified = NotClassified
    /\ classified' = classify_violation(result, result.flags)
    /\ UNCHANGED <<result, db_vars, agg_vars, mon_vars, store_vars>>

NextClassify == Classify

SpecClassify == InitClassify /\ [][NextClassify]_vars

(***************************************************************************)
(* Specification of the aggregator: callers of update_violation_summary    *)
(* that overlap.  A call is entered, then the server executes its          *)
(* statement (one atomic step of the database) or the statement fails with *)
(* a pymysql.Error.                                                        *)
(***************************************************************************)
AggCall(c, submission_id, severity, detected_at) ==
    /\ agg[c].pc = "idle"
    /\ agg' = [agg EXCEPT ![c] = [pc |-> "executing", submission_id |-> submission_id,
                                  severity |-> severity, detected_at |-> detected_at,
                                  ret |-> "-"]]
    /\ UNCHANGED <<store_vars, classifier_vars, db_vars, agg_ok, agg_raced, mon_vars>>

\* lines 157-166: the statement runs, the call returns True
AggExecute(c) ==
    /\ agg[c].pc = "executing"
    /\ violation_summary' =
            ExecuteUpsert(violation_summary, agg[c].submission_id, agg[c].severity,
                          agg[c].detected_at, simultaneous_assignment)
    /\ agg' = [agg EXCEPT ![c] = [IdleCall EXCEPT !.pc = "done", !.ret = "True"]]
    /\ agg_ok' = [agg_ok EXCEPT ![agg[c].submission_id][agg[c].severity] = @ + 1]
    /\ agg_raced' =
            IF \E d \in Callers \ {c} :
                    agg[d].pc = "executing" /\ agg[d].submission_id = agg[c].submission_id
            THEN agg_raced \cup {agg[c].submission_id}
            ELSE agg_raced
    /\ UNCHANGED <<store_vars, classifier_vars, simultaneous_assignment, mon_vars>>

\* lines 167-169: pymysql.Error, the call returns False
AggError(c) ==
    /\ agg[c].pc = "executing"
    /\ agg' = [agg EXCEPT ![c] = [IdleCall EXCEPT !.pc = "done", !.ret = "False"]]
    /\ UNCHANGED <<store_vars, classifier_vars, db_vars, agg_ok, agg_raced, mon_vars>>

InitAggregator == InitClassifier /\ InitDatabase /\ InitAgg /\ InitMonitor /\ InitStore

NextAgg ==
    \/ \E c \in Callers, s \in Submissions, v \in Severities, t \in Times :
            AggCall(c, s, v, t)
    \/ \E c \in Callers : AggExecute(c)
    \/ \E c \in Callers : AggError(c)

SpecAgg == InitAggregator /\ [][NextAgg]_vars

(***************************************************************************)
(* monitor_exam, app.py 102-244: the requests to /api/monitor, handled by  *)
(* threads that overlap.  Each call to the detector, the object store and  *)
(* the database is one step.                                               *)
(***************************************************************************)
Free(p) == req[p].pc = "idle"

\* lines 117-153: a field is missing or malformed, the student is not found, the
\* lookup fails or no image decodes; the request ends before detection
MonitorReject(p, code) ==
    /\ Free(p)
    /\ req' = [req EXCEPT ![p] =
                [IdleRequest EXCEPT !.pc = "done",
                                    !.response = [code |-> code, status |-> "error"]]]
    /\ UNCHANGED <<store_vars, classifier_vars, db_vars, agg_vars, violations, s3_objects, now>>

\* lines 157-171 and 230-240: detection, the timestamp, the decision to record
\* and the classification; a frame without violation is answered "clear"
MonitorAnalyze(p, submission_id, res) ==
    /\ Free(p)
    /\ LET has_violation == res.status # "clear"
           flags == res.flags
           r == [IdleRequest EXCEPT !.submission_id = submission_id, !.result = res,
                                    !.detected_at = now]
       IN  req' = [req EXCEPT ![p] =
                IF has_violation /\ flags # <<>>
                THEN [r EXCEPT !.pc = "upload",
                               !.violation_type = classify_violation(res, flags)[1],
                               !.severity = classify_violation(res, flags)[2]]
                ELSE [r EXCEPT !.pc = "done",
                               !.response = [code |-> 200, status |-> "clear"]]]
    /\ UNCHANGED <<store_vars, classifier_vars, db_vars, agg_vars, violations, s3_objects, now>>

\* a handler that records the frame it could not analyse
MonitorAnalyzeFailsAfterRecord(p, submission_id) ==
    /\ Free(p)
    /\ violations' = Append(violations,
                        [ submission_id |-> submission_id,
                          violation_type |-> "unknown_violation",
                          severity |-> "medium",
                          image_url |-> "None",
                          detected_at |-> now ])
    /\ req' = [req EXCEPT ![p] =
                [IdleRequest EXCEPT !.pc = "done", !.submission_id = submission_id,
                                    !.failed = TRUE,
                                    !.response = [code |-> 500, status |-> "error"]]]
    /\ UNCHANGED <<store_vars, classifier_vars, db_vars, agg_vars, s3_objects, now>>

\* lines 159 and 242-244: PIPELINE.analyze raises
MonitorAnalyzeFails(p, submission_id) ==
    /\ Free(p)
    /\ req' = [req EXCEPT ![p] =
                [IdleRequest EXCEPT !.pc = "done", !.submission_id = submission_id,
                                    !.failed = TRUE,
                                    !.response = [code |-> 500, status |-> "error"]]]
    /\ UNCHANGED <<store_vars, classifier_vars, db_vars, agg_vars, violations, s3_objects, now>>

\* lines 177-183 and s3_service.py 68-123: the upload returns (url, key), or
\* (None, None) when it fails
MonitorUpload(p, ok) ==
    /\ req[p].pc = "upload"
    /\ req' = [req EXCEPT ![p].pc = "insert",
                          ![p].image_url = IF ok THEN "url" ELSE "None",
                          ![p].failed = @ \/ ~ok]
    /\ s3_objects' = IF ok THEN s3_objects + 1 ELSE s3_objects
    /\ UNCHANGED <<store_vars, classifier_vars, db_vars, agg_vars, violations, now>>

\* a handler that updates the summary whether or not the INSERT returned an id
MonitorInsertThenSummary(p, ok) ==
    /\ req[p].pc = "insert"
    /\ violations' =
            IF ok
            THEN Append(violations,
                        [ submission_id |-> req[p].submission_id,
                          violation_type |-> req[p].violation_type,
                          severity |-> req[p].severity,
                          image_url |-> req[p].image_url,
                          detected_at |-> req[p].detected_at ])
            ELSE violations
    /\ req' = [req EXCEPT ![p].pc = "summary",
                          ![p].violation_id = IF ok THEN Len(violations) + 1 ELSE 0,
                          ![p].inserted = IF ok THEN 1 ELSE 0,
                          ![p].failed = @ \/ ~ok]
    /\ UNCHANGED <<store_vars, classifier_vars, db_vars, agg_vars, s3_objects, now>>

\* lines 191-202 and mysql_service.py 76-103: the INSERT returns lastrowid, or
\* None on a pymysql.Error; line 205 skips the summary without an id
MonitorInsert(p, ok) ==
    /\ req[p].pc = "insert"
    /\ violations' =
            IF ok
            THEN Append(violations,
                        [ submission_id |-> req[p].submission_id,
                          violation_type |-> req[p].violation_type,
                          severity |-> req[p].severity,
                          image_url |-> req[p].image_url,
                          detected_at |-> req[p].detected_at ])
            ELSE violations
    /\ req' = [req EXCEPT ![p].pc = IF ok THEN "summary" ELSE "respond",
                          ![p].violation_id = IF ok THEN Len(violations) + 1 ELSE 0,
                          ![p].inserted = IF ok THEN 1 ELSE 0,
                          ![p].failed = @ \/ ~ok]
    /\ UNCHANGED <<store_vars, classifier_vars, db_vars, agg_vars, s3_objects, now>>

\* lines 205-212: update_violation_summary; its return value is not looked at
MonitorSummary(p, ok) ==
    /\ req[p].pc = "summary"
    /\ violation_summary' =
            IF ok
            THEN ExecuteUpsert(violation_summary, req[p].submission_id, req[p].severity,
                               req[p].detected_at, simultaneous_assignment)
            ELSE violation_summary
    /\ req' = [req EXCEPT ![p].pc = "respond",
                          ![p].upserted = IF ok THEN 1 ELSE 0,
                          ![p].failed = @ \/ ~ok]
    /\ UNCHANGED <<store_vars, classifier_vars, simultaneous_assignment, agg_vars, violations,
                   s3_objects, now>>

\* lines 214-229; the locals of the call end with it
MonitorRespond(p) ==
    /\ req[p].pc = "respond"
    /\ req' = [req EXCEPT ![p] =
                [IdleRequest EXCEPT
                    !.pc = "done",
                    !.submission_id = req[p].submission_id,
                    !.result = req[p].result,
                    !.inserted = req[p].inserted,
                    !.upserted = req[p].upserted,
                    !.failed = req[p].failed,
                    !.response = [code |-> 200, status |-> "violation_detected"]]]
    /\ UNCHANGED <<store_vars, classifier_vars, db_vars, agg_vars, violations, s3_objects, now>>

\* time passes
Tick ==
    /\ now < MaxTime
    /\ now' = now + 1
    /\ UNCHANGED <<store_vars, classifier_vars, db_vars, agg_vars, violations, s3_objects, req>>

Init == InitClassifier /\ InitDatabase /\ InitAgg /\ InitMonitor /\ InitStore

Next ==
    \/ \E p \in Procs, code \in {400, 404, 500} : MonitorReject(p, code)
    \/ \E p \in Procs, s \in Submissions, res \in MonitorResults :
            MonitorAnalyze(p, s, res)
    \/ \E p \in Procs, s \in Submissions : MonitorAnalyzeFails(p, s)
    \/ \E p \in Procs, ok \in BOOLEAN : MonitorUpload(p, ok)
    \/ \E p \in Procs, ok \in BOOLEAN : MonitorInsert(p, ok)
    \/ \E p \in Procs, ok \in BOOLEAN : MonitorSummary(p, ok)
    \/ \E p \in Procs : MonitorRespond(p)
    \/ Tick

Spec == Init /\ [][Next]_vars

(***************************************************************************)
(* The face store endpoints of app.py and the calls they make into         *)
(* FaceRecognizer and FaceDatabase, handled by threads that overlap.  No   *)
(* lock is taken anywhere in the source, so each access to the dicts and   *)
(* to the file is a step of its own.  The images of a registration are     *)
(* counted when the call starts and their faces are looked at in           *)
(* add_person.  The email and the registration date stored in the metadata *)
(* are never read by these calls and are left out.                         *)
(***************************************************************************)
other_vars == <<classifier_vars, db_vars, agg_vars, mon_vars>>

\* the worker takes its next call when it has answered; the threads that overlap
\* are followed for one call each
Ready(t) == thread[t].pc = "idle" \/ (t = Worker /\ thread[t].pc = "done")

\* the call ends: its arguments and its answer stay on record
Finish(r, code, message) ==
    [IdleThread EXCEPT !.pc = "done", !.op = r.op, !.name = r.name,
                       !.student_id = r.student_id, !.response = Answer(code, message)]

\* app.py 273-274, 407-408, 464-465: _extract_name or _extract_student_id raises
BadRequest(t) ==
    /\ Ready(t)
    /\ thread' = [thread EXCEPT ![t] = Finish(IdleThread, 400, "Missing field")]
    /\ UNCHANGED <<embeddings, metadata, db_file, loaded, other_vars>>

\* app.py 247-282: the student_id must be new, then at least three images
RegisterStudent(t, name, student_id, images) ==
    /\ Ready(t)
    /\ LET existing_name == find_by_student_id(student_id)
           r == [IdleThread EXCEPT
                    !.op = "register", !.name = name, !.student_id = student_id]
       IN  thread' = [thread EXCEPT ![t] =
                IF existing_name # NotFound
                THEN Finish(r, 400, "student_id already registered")
                ELSE IF images = <<>>
                THEN Finish(r, 400, "at least 1 image")
                ELSE IF Len(images) < 3
                THEN Finish(r, 400, "at least 3 images")
                ELSE [r EXCEPT !.pc = "has_person", !.n_images = Len(images)]]
    /\ UNCHANGED <<embeddings, metadata, db_file, loaded, other_vars>>

\* app.py 456-472: the older endpoint, a name and at least one image, no student_id
AddFace(t, name, images) ==
    /\ Ready(t)
    /\ LET r == [IdleThread EXCEPT !.op = "add_face", !.name = name, !.student_id = ""]
       IN  thread' = [thread EXCEPT ![t] =
                IF images = <<>>
                THEN Finish(r, 400, "at least 1 image")
                ELSE [r EXCEPT !.pc = "has_person", !.n_images = Len(images)]]
    /\ UNCHANGED <<embeddings, metadata, db_file, loaded, other_vars>>

\* the images of a call that passed the tests of its endpoint
Accepted(r, images) == Len(images) = r.n_images

\* an add_person that does not look for the name in the store, which is
\* FaceDatabase.add_person called on its own
AddPersonWithoutCheck(t, images) ==
    /\ thread[t].pc = "has_person"
    /\ Accepted(thread[t], images)
    /\ LET vectors == CollectEmbeddings(images)
       IN  thread' = [thread EXCEPT ![t] =
                IF vectors = <<>>
                THEN Finish(thread[t], 400, "No valid faces detected")
                ELSE [thread[t] EXCEPT !.pc = "set_embedding", !.vectors = vectors]]
    /\ UNCHANGED <<embeddings, metadata, db_file, loaded, other_vars>>

\* face_recognition.py 104-127: FaceRecognizer.add_person refuses a name that is
\* in the store, then collects the embeddings of the images
AddPerson(t, images) ==
    /\ thread[t].pc = "has_person"
    /\ Accepted(thread[t], images)
    /\ LET vectors == CollectEmbeddings(images)
       IN  thread' = [thread EXCEPT ![t] =
                IF has_person(thread[t].name)
                THEN Finish(thread[t], 400, "already exists in database")
                ELSE IF vectors = <<>>
                THEN Finish(thread[t], 400, "No valid faces detected")
                ELSE [thread[t] EXCEPT !.pc = "set_embedding", !.vectors = vectors]]
    /\ UNCHANGED <<embeddings, metadata, db_file, loaded, other_vars>>

\* face_database.py 92-100 and 110: an empty list is refused; else
\* self._embeddings[name] = mean_embedding, and len(vectors) is what the call
\* will return
SetEmbedding(t) ==
    /\ thread[t].pc = "set_embedding"
    /\ LET vectors == thread[t].vectors
       IN  IF vectors = <<>>
           THEN /\ embeddings' = embeddings
                /\ thread' = [thread EXCEPT ![t] =
                        Finish(thread[t], 400, "No embeddings supplied")]
           ELSE /\ embeddings' = Put(embeddings, thread[t].name, Mean(vectors))
                /\ thread' = [thread EXCEPT ![t].pc = "set_metadata",
                                            ![t].vectors = <<>>,
                                            ![t].count = Len(vectors)]
    /\ UNCHANGED <<metadata, db_file, loaded, other_vars>>

\* face_database.py 103-107: self._metadata[name] = {...}
SetMetadata(t) ==
    /\ thread[t].pc = "set_metadata"
    /\ metadata' = Put(metadata, thread[t].name, [student_id |-> thread[t].student_id])
    /\ thread' = [thread EXCEPT ![t].pc = "save_open"]
    /\ UNCHANGED <<embeddings, db_file, loaded, other_vars>>

\* face_database.py 62: open("wb") empties the file
SaveOpen(t) ==
    /\ thread[t].pc = "save_open"
    /\ db_file' = Truncated
    /\ thread' = [thread EXCEPT ![t].pc = "save_dump"]
    /\ UNCHANGED <<embeddings, metadata, loaded, other_vars>>

\* face_database.py 63: the dump writes the two dicts as they are now, or stops
\* on an OSError; then the answer of the endpoint, app.py 284-300 and 340-350
SaveDump(t, ok) ==
    /\ thread[t].pc = "save_dump"
    /\ db_file' = IF ok THEN Pickled(embeddings, metadata) ELSE db_file
    /\ thread' = [thread EXCEPT ![t] =
            IF ~ok THEN Finish(thread[t], 500, "Internal error")
            ELSE IF thread[t].op = "delete" THEN Finish(thread[t], 200, "deleted")
            ELSE [Finish(thread[t], 201, "registered") EXCEPT
                    !.response.processed_images = thread[t].n_images,
                    !.response.embeddings_used = thread[t].count]]
    /\ UNCHANGED <<embeddings, metadata, loaded, other_vars>>

\* app.py 322-338: the identifier is a student_id, or else a name
DeleteStudent(t, identifier) ==
    /\ Ready(t)
    /\ LET found == find_by_student_id(identifier)
           name == IF found # NotFound THEN found ELSE identifier
       IN  thread' = [thread EXCEPT ![t] =
                [IdleThread EXCEPT !.pc = "delete_person", !.op = "delete",
                                   !.name = name]]
    /\ UNCHANGED <<embeddings, metadata, db_file, loaded, other_vars>>

\* face_database.py 172-173 and app.py 341-342: delete_person returns False
DeletePerson(t) ==
    /\ thread[t].pc = "delete_person"
    /\ thread' = [thread EXCEPT ![t] =
            IF ~has_person(thread[t].name)
            THEN Finish(thread[t], 404, "not found")
            ELSE [thread[t] EXCEPT !.pc = "del_embedding"]]
    /\ UNCHANGED <<embeddings, metadata, db_file, loaded, other_vars>>

\* face_database.py 174: del self._embeddings[name]; a KeyError when another
\* call removed the name since the test
DelEmbedding(t) ==
    /\ thread[t].pc = "del_embedding"
    /\ IF has_person(thread[t].name)
       THEN /\ embeddings' = Del(embeddings, thread[t].name)
            /\ thread' = [thread EXCEPT ![t].pc = "del_metadata"]
       ELSE /\ embeddings' = embeddings
            /\ thread' = [thread EXCEPT ![t] = Finish(thread[t], 500, "Internal error")]
    /\ UNCHANGED <<metadata, db_file, loaded, other_vars>>

\* a delete_person that removes the embedding and leaves the metadata
DelMetadataKept(t) ==
    /\ thread[t].pc = "del_metadata"
    /\ metadata' = metadata
    /\ thread' = [thread EXCEPT ![t].pc = "save_open"]
    /\ UNCHANGED <<embeddings, db_file, loaded, other_vars>>

\* face_database.py 175-176
DelMetadata(t) ==
    /\ thread[t].pc = "del_metadata"
    /\ metadata' = IF Has(metadata, thread[t].name) THEN Del(metadata, thread[t].name)
                   ELSE metadata
    /\ thread' = [thread EXCEPT ![t].pc = "save_open"]
    /\ UNCHANGED <<embeddings, db_file, loaded, other_vars>>

\* app.py 424-425: the endpoint refuses a threshold outside 0.0 .. 1.0
VerifyRefused(t, threshold) ==
    /\ Ready(t)
    /\ threshold # NoThreshold
    /\ ScoreGreater(Zero, threshold) \/ ScoreGreater(threshold, Score(1, 1))
    /\ thread' = [thread EXCEPT ![t] =
            Finish([IdleThread EXCEPT !.op = "verify"], 400, "Threshold must be between")]
    /\ UNCHANGED <<embeddings, metadata, db_file, loaded, other_vars>>

\* app.py 426-440 and face_recognition.py 172-181: the name that goes with the
\* student_id.  The endpoint passes thresholds of 0.0 .. 1.0 only; any other
\* threshold comes from a caller of FaceRecognizer.verify_student.
VerifyStudent(t, student_id, faces, verification_threshold) ==
    /\ Ready(t)
    /\ LET student_name == find_by_student_id(student_id)
           r == [IdleThread EXCEPT !.op = "verify", !.student_id = student_id,
                                   !.faces = faces, !.threshold = verification_threshold]
       IN  thread' = [thread EXCEPT ![t] =
                IF student_name = NotFound
                THEN Finish(r, 401, "not found in database")
                ELSE [r EXCEPT !.pc = "verify_has_person", !.name = student_name]]
    /\ UNCHANGED <<embeddings, metadata, db_file, loaded, other_vars>>

\* a verifier that looks at the frame before it looks for the stored embedding,
\* and at the embedding of the first face before it counts the faces
CheckFrameFirst(t) ==
    /\ thread[t].pc = "verify_has_person"
    /\ LET faces == thread[t].faces
       IN  thread' = [thread EXCEPT ![t] =
                IF faces = <<>>
                THEN Finish(thread[t], 401, "No face detected")
                ELSE IF faces[1].embedding = None
                THEN Finish(thread[t], 401, "Failed to extract face embedding")
                ELSE IF Len(faces) > 1
                THEN Finish(thread[t], 401, "Multiple faces detected")
                ELSE IF ~has_person(thread[t].name)
                THEN Finish(thread[t], 401, "no face data available")
                ELSE [thread[t] EXCEPT !.pc = "identify", !.i = 0, !.faces = <<>>,
                                       !.embedding = faces[1].embedding]]
    /\ UNCHANGED <<embeddings, metadata, db_file, loaded, other_vars>>

\* face_recognition.py 184-232: the stored embedding must exist, then the frame
\* must show one face that has an embedding
CheckFrame(t) ==
    /\ thread[t].pc = "verify_has_person"
    /\ LET faces == thread[t].faces
       IN  thread' = [thread EXCEPT ![t] =
                IF ~has_person(thread[t].name)
                THEN Finish(thread[t], 401, "no face data available")
                ELSE IF faces = <<>>
                THEN Finish(thread[t], 401, "No face detected")
                ELSE IF Len(faces) > 1
                THEN Finish(thread[t], 401, "Multiple faces detected")
                ELSE IF faces[1].embedding = None
                THEN Finish(thread[t], 401, "Failed to extract face embedding")
                ELSE [thread[t] EXCEPT !.pc = "identify", !.i = 0, !.faces = <<>>,
                                       !.embedding = faces[1].embedding]]
    /\ UNCHANGED <<embeddings, metadata, db_file, loaded, other_vars>>

\* a verdict that looks at the score only
CompareScoreOnly(r, matched_name, similarity) ==
    LET threshold == IF r.threshold # NoThreshold THEN r.threshold ELSE match_threshold
        verified == ~ScoreGreater(threshold, similarity)
        message == IF verified THEN "Identity verified"
                   ELSE IF matched_name # r.name THEN "Face matches another identity"
                   ELSE "Similarity score below threshold"
    IN  [IdleThread EXCEPT
            !.pc = "done", !.op = r.op, !.name = r.name, !.student_id = r.student_id,
            !.response = [code |-> IF verified THEN 200 ELSE 401,
                          message |-> message, verified |-> verified,
                          confidence |-> similarity,
                          matched_name |-> matched_name,
                          processed_images |-> 0, embeddings_used |-> 0]]

\* face_recognition.py 169 and 235-256: the threshold of the call, the verdict
\* and its message
Compare(r, matched_name, similarity) ==
    LET threshold == IF r.threshold # NoThreshold THEN r.threshold ELSE match_threshold
        verified == matched_name = r.name /\ ~ScoreGreater(threshold, similarity)
        message == IF verified THEN "Identity verified"
                   ELSE IF matched_name # r.name THEN "Face matches another identity"
                   ELSE "Similarity score below threshold"
    IN  [IdleThread EXCEPT
            !.pc = "done", !.op = r.op, !.name = r.name, !.student_id = r.student_id,
            !.response = [code |-> IF verified THEN 200 ELSE 401,
                          message |-> message, verified |-> verified,
                          confidence |-> similarity,
                          matched_name |-> matched_name,
                          processed_images |-> 0, embeddings_used |-> 0]]

\* a verifier that stores the embedding it is shown as the student's embedding
IdentifyBeginRemembering(t) ==
    /\ thread[t].pc = "identify"
    /\ thread[t].i = 0
    /\ embeddings' = Put(embeddings, thread[t].name, thread[t].embedding)
    /\ thread' = [thread EXCEPT ![t] =
            [thread[t] EXCEPT !.i = 1, !.used = Len(embeddings'),
                              !.best_name = "Unknown", !.best_score = MinusOne]]
    /\ UNCHANGED <<metadata, db_file, loaded, other_vars>>

\* face_database.py 119-123: an empty store answers ("Unknown", 0.0), else the
\* loop over the entries starts
IdentifyBegin(t) ==
    /\ thread[t].pc = "identify"
    /\ thread[t].i = 0
    /\ thread' = [thread EXCEPT ![t] =
            IF embeddings = <<>>
            THEN Compare(thread[t], "Unknown", Zero)
            ELSE [thread[t] EXCEPT !.i = 1, !.used = Len(embeddings),
                                   !.best_name = "Unknown", !.best_score = MinusOne]]
    /\ UNCHANGED <<embeddings, metadata, db_file, loaded, other_vars>>

\* face_database.py 124-130: one turn of the loop.  The iterator of a dict whose
\* size has changed raises RuntimeError, which ends the call (app.py 449-452).
IdentifyNext(t) ==
    /\ thread[t].pc = "identify"
    /\ thread[t].i > 0
    /\ LET r == thread[t]
       IN  thread' = [thread EXCEPT ![t] =
                IF Len(embeddings) # r.used
                THEN Finish(r, 500, "Internal error")
                ELSE IF r.i > Len(embeddings)
                THEN Compare(r, r.best_name, r.best_score)
                ELSE LET score == Cosine(r.embedding, embeddings[r.i].value)
                     IN  IF ScoreGreater(score, r.best_score)
                         THEN [r EXCEPT !.i = @ + 1, !.best_name = embeddings[r.i].key,
                                        !.best_score = score]
                         ELSE [r EXCEPT !.i = @ + 1]]
    /\ UNCHANGED <<embeddings, metadata, db_file, loaded, other_vars>>

\* face_database.py 24-54: another process builds a FaceDatabase on the same
\* path; pickle.load of a file that was emptied raises EOFError
LoadSnapshot ==
    /\ loaded' = IF db_file.state = "truncated" THEN "EOFError" ELSE "loaded"
    /\ UNCHANGED <<embeddings, metadata, db_file, thread, other_vars>>

\* the steps of thread t
Step(t) ==
    \/ BadRequest(t)
    \/ \E name \in Names, student_id \in StudentIds, images \in ImageLists :
            RegisterStudent(t, name, student_id, images)
    \/ \E name \in Names, images \in ImageLists : AddFace(t, name, images)
    \/ \E images \in ImageLists : AddPerson(t, images)
    \/ SetEmbedding(t)
    \/ SetMetadata(t)
    \/ SaveOpen(t)
    \/ \E ok \in BOOLEAN : SaveDump(t, ok)
    \/ \E identifier \in StudentIds \cup Names : DeleteStudent(t, identifier)
    \/ DeletePerson(t)
    \/ DelEmbedding(t)
    \/ DelMetadata(t)
    \/ \E threshold \in Thresholds : VerifyRefused(t, threshold)
    \/ \E student_id \in StudentIds, faces \in Frames, threshold \in Thresholds :
            VerifyStudent(t, student_id, faces, threshold)
    \/ CheckFrame(t)
    \/ IdentifyBegin(t)
    \/ IdentifyNext(t)

\* the store of a server that has just started, before any face store file exists
InitFaceStore == Init /\ simultaneous_assignment = FALSE

\* face_database.py 24-54: the stores a server starts with, loaded from the file
\* that earlier registrations left
Identity(name, embedding, student_id) ==
    [ embeddings |-> <<[key |-> name, value |-> embedding]>>,
      metadata |-> <<[key |-> name, value |-> [student_id |-> student_id]]>> ]

Both(a, b) == [ embeddings |-> a.embeddings \o b.embeddings,
                metadata |-> a.metadata \o b.metadata ]

StartStores ==
    { Identity("An", East, "S1"),
      Identity("Binh", Reduced(1, 2, 3), ""),
      Both(Identity("An", East, "S1"), Identity("Binh", Reduced(1, 2, 3), "S2")) }

InitLoaded ==
    /\ InitClassifier /\ InitDatabase /\ InitAgg /\ InitMonitor
    /\ simultaneous_assignment = FALSE
    /\ \/ db_file = NoFile
       \/ \E store \in StartStores : db_file = Pickled(store.embeddings, store.metadata)
    /\ embeddings = Load(db_file).embeddings
    /\ metadata = Load(db_file).metadata
    /\ loaded = "loaded"
    /\ thread = [t \in Threads |-> IdleThread]

\* two calls that overlap
NextStore == (\E t \in Overlapping : Step(t)) \/ LoadSnapshot

SpecStore == InitLoaded /\ [][NextStore]_vars

\* a server that handles one call at a time
NextStoreSeq ==
    \/ Step(Worker)
    \/ Ready(Worker) /\ LoadSnapshot

SpecStoreSeq == InitFaceStore /\ [][NextStoreSeq]_vars

(***************************************************************************)
(* Properties of the aggregator.                                           *)
(***************************************************************************)
SummaryRows(s) == {row \in violation_summary : row.submission_id = s}

CallsOk(s) == agg_ok[s]["critical"] + agg_ok[s]["high"] + agg_ok[s]["medium"]
                + agg_ok[s]["low"]

\* no call is in flight
AllCallersIdle == \A c \in Callers : agg[c].pc # "executing"

\* caller c returns True from update_violation_summary in this step
Returned(c) == agg[c].pc = "executing" /\ agg'[c].ret = "True"

\* C1: every summary row carries risk_score = critical_count*50 + high_count*10
\* + medium_count*10 + low_count*10 of its own counts, from its creation on.
C1_RiskScoreIsFormulaOfCounts ==
    \A row \in violation_summary :
        row.risk_score = row.critical_count * 50 + row.high_count * 10
                            + row.medium_count * 10 + row.low_count * 10

\* C2: once the calls made for a submission have returned, total_violations is
\* their number, each bucket the number of calls with its severity, and risk_score
\* is 50 per critical call plus 10 per other call ([critical, medium, medium]
\* gives 3, 1, 2 and 70).
C2_CountsAndScoreOfCalls ==
    AllCallersIdle =>
        \A s \in Submissions : \A row \in SummaryRows(s) :
            /\ row.total_violations = CallsOk(s)
            /\ row.critical_count = agg_ok[s]["critical"]
            /\ row.high_count = agg_ok[s]["high"]
            /\ row.medium_count = agg_ok[s]["medium"]
            /\ row.low_count = agg_ok[s]["low"]
            /\ row.total_violations = row.critical_count + row.high_count
                                        + row.medium_count + row.low_count
            /\ row.risk_score = 50 * agg_ok[s]["critical"]
                    + 10 * (agg_ok[s]["high"] + agg_ok[s]["medium"] + agg_ok[s]["low"])

\* C3: whatever the interleaving of the calls for a submission, also when they
\* were entered before any row existed, the submission has exactly one row once
\* a call has returned True, and the row counts every such call: its total is
\* their number and each bucket the number of them with that severity.
C3_NoLostUpdate ==
    \A s \in Submissions :
        /\ Cardinality(SummaryRows(s)) = (IF CallsOk(s) = 0 THEN 0 ELSE 1)
        /\ \A row \in SummaryRows(s) :
            /\ row.total_violations = CallsOk(s)
            /\ row.critical_count = agg_ok[s]["critical"]
            /\ row.high_count = agg_ok[s]["high"]
            /\ row.medium_count = agg_ok[s]["medium"]
            /\ row.low_count = agg_ok[s]["low"]

\* C3 witness: two calls for one submission overlapped, both have returned, and
\* the row counts two violations.
C3_Witness ==
    /\ AllCallersIdle
    /\ \E s \in agg_raced : \E row \in SummaryRows(s) : row.total_violations = 2

\* C4: the call that creates the row of a submission sets first_violation_at and
\* last_violation_at to its detected_at; every later call sets last_violation_at
\* to its detected_at and keeps first_violation_at.
C4_FirstKeptLastUpdated ==
    [][\A c \in Callers :
        Returned(c) =>
            LET s == agg[c].submission_id
                before == SummaryRows(s)
                after == {row \in violation_summary' : row.submission_id = s}
            IN  /\ after # {}
                /\ \A row \in after :
                    /\ row.last_violation_at = agg[c].detected_at
                    /\ before = {} => row.first_violation_at = agg[c].detected_at
                    /\ \A old \in before :
                            row.first_violation_at = old.first_violation_at]_vars

\* C4 witness: a row updated by a later call with another timestamp.
C4_Witness ==
    \E row \in violation_summary :
        /\ row.total_violations = 2
        /\ row.first_violation_at = 2
        /\ row.last_violation_at = 1

\* C5: the rows of a submission change only in a step in which a call for that
\* submission returns; a call for submission A leaves every other submission's
\* row, or its absence, as it was.
C5_OtherSubmissionsUntouched ==
    [][\A s \in Submissions :
        (\A c \in Callers : ~(Returned(c) /\ agg[c].submission_id = s)) =>
            {row \in violation_summary' : row.submission_id = s} = SummaryRows(s)]_vars

\* C5 witness: both submissions have a row and one of the rows was updated by a
\* second call.
C5_Witness ==
    \E r1 \in SummaryRows("sub1") : \E r2 \in SummaryRows("sub2") :
        /\ r1.total_violations = 2
        /\ r2.total_violations = 1
        /\ r1.last_violation_at # r2.last_violation_at

(***************************************************************************)
(* Properties of the monitoring endpoint.                                  *)
(***************************************************************************)
\* C10: a monitoring call whose detection result has a status other than "clear"
\* creates exactly one violation record and one summary update, and a call with
\* status "clear" creates none, whether or not the flags list is empty (stated
\* for the calls in which no external call failed).
C10_OneRecordPerNonClearCall ==
    \A p \in Procs :
        (req[p].pc = "done" /\ req[p].response.code = 200 /\ ~req[p].failed) =>
            /\ req[p].result.status # "clear" =>
                    (req[p].inserted = 1 /\ req[p].upserted = 1)
            /\ req[p].result.status = "clear" =>
                    (req[p].inserted = 0 /\ req[p].upserted = 0)

\* C11: a monitoring call that detected a violation and whose image upload,
\* violation insert or summary upsert failed is answered as failed, never with
\* status "violation_detected" or "clear".
C11_PersistenceFailureIsReported ==
    \A p \in Procs :
        (req[p].pc = "done" /\ req[p].failed) =>
            /\ req[p].response.code # 200
            /\ req[p].response.status \notin {"violation_detected", "clear"}

\* the step in which detection fails for request p
DetectionFails(p) ==
    /\ req[p].pc = "idle"
    /\ req'[p].pc = "done"
    /\ req'[p].failed

\* C12: a call whose detection fails ends in that step with an error, before the
\* classifier, the upload, insert_violation and update_violation_summary: no
\* violation record is written, no image stored and no summary row created or
\* changed.
C12_FailedDetectionWritesNothing ==
    [][\A p \in Procs :
        DetectionFails(p) =>
            /\ violations' = violations
            /\ violation_summary' = violation_summary
            /\ s3_objects' = s3_objects
            /\ req'[p].violation_type = "-"
            /\ req'[p].inserted = 0
            /\ req'[p].upserted = 0
            /\ req'[p].response = [code |-> 500, status |-> "error"]]_vars

\* C12 witness: detection failed for one call after another call of the same
\* submission was recorded; the record and the summary row are the other call's.
C12_Witness ==
    \E p \in Procs, q \in Procs :
        /\ req[p].pc = "done" /\ req[p].failed /\ req[p].response.code = 500
        /\ req[q].pc = "done" /\ req[q].upserted = 1
        /\ req[q].submission_id = req[p].submission_id
        /\ Len(violations) = 1
        /\ \E row \in violation_summary :
                row.submission_id = req[p].submission_id /\ row.total_violations = 1

\* request p takes a step
MonitorStep(p) == req'[p] # req[p]

\* C25: in a monitoring call that detects a violation the image is uploaded
\* first, the violation is inserted next and the summary is updated last, and
\* the summary update is issued only with the id of the inserted violation: a
\* call whose insert failed goes on to its answer and leaves the summary alone.
C25_UploadInsertSummary ==
    [][\A p \in Procs :
        MonitorStep(p) =>
            LET r == req[p]
            IN  /\ s3_objects' # s3_objects =>
                        /\ r.image_url = "-"
                        /\ r.inserted = 0 /\ r.violation_id = 0 /\ r.upserted = 0
                /\ violations' # violations =>
                        /\ r.image_url # "-"
                        /\ r.upserted = 0
                        /\ Len(violations') = Len(violations) + 1
                        /\ violations'[Len(violations')].image_url = r.image_url
                /\ (r.pc = "insert" /\ violations' = violations) =>
                        /\ req'[p].pc = "respond"
                        /\ req'[p].violation_id = 0
                /\ r.pc = "summary" =>
                        /\ r.violation_id \in 1..Len(violations)
                        /\ violations[r.violation_id].submission_id = r.submission_id
                /\ violation_summary' # violation_summary =>
                        /\ r.pc = "summary"
                        /\ r.image_url # "-"
                        /\ r.inserted = 1]_vars

\* C25 witness: one call uploaded, inserted and updated the summary; another
\* call of the same submission uploaded, failed to insert and left the summary
\* alone.
C25_Witness ==
    \E p \in Procs, q \in Procs :
        /\ req[p].pc = "done" /\ req[p].inserted = 1 /\ req[p].upserted = 1
        /\ req[q].pc = "done" /\ req[q].inserted = 0 /\ req[q].failed
        /\ req[q].response.status = "violation_detected"
        /\ req[q].submission_id = req[p].submission_id
        /\ s3_objects = 2
        /\ Len(violations) = 1
        /\ \A row \in violation_summary : row.total_violations = 1
        /\ violation_summary # {}

\* the violation records of submission s
RecordsOf(s) == {i \in 1..Len(violations) : violations[i].submission_id = s}

\* C26: when no monitoring call is in progress, the summary row of a submission
\* counts the violation records of that submission, and a submission has a
\* summary row exactly when it has a record, whichever external calls failed.
C26_TotalCountsRecords ==
    (\A p \in Procs : req[p].pc \in {"idle", "done"}) =>
        \A s \in Submissions :
            /\ SummaryRows(s) = {} <=> RecordsOf(s) = {}
            /\ \A row \in SummaryRows(s) :
                    row.total_violations = Cardinality(RecordsOf(s))

\* C27: in every summary row first_violation_at is not later than
\* last_violation_at, also when overlapping calls of one submission take their
\* timestamps in one order and update the summary in the other.
C27_FirstNotAfterLast ==
    \A row \in violation_summary : row.first_violation_at <= row.last_violation_at

\* C28: the classifier returns the severities critical and medium only, so
\* every violation record has one of the two and every summary row has
\* high_count = 0, low_count = 0 and total_violations = critical_count +
\* medium_count.
C28_CriticalAndMediumOnly ==
    /\ \A p \in Procs : req[p].severity \in {"-", "critical", "medium"}
    /\ \A i \in 1..Len(violations) : violations[i].severity \in {"critical", "medium"}
    /\ \A row \in violation_summary :
            /\ row.high_count = 0
            /\ row.low_count = 0
            /\ row.total_violations = row.critical_count + row.medium_count

\* C28 witness: a summary row that counts one critical and one medium violation.
C28_Witness ==
    \E row \in violation_summary :
        /\ row.critical_count = 1
        /\ row.medium_count = 1
        /\ row.total_violations = 2
        /\ Cardinality(RecordsOf(row.submission_id)) = 2

(***************************************************************************)
(* Properties of the verifier.                                             *)
(***************************************************************************)
\* thread t takes a step of a verification
VerifyStep(t) == thread'[t] # thread[t] /\ thread'[t].op = "verify"

\* the answer of a verification that stops before the comparison
Stopped(r, message) ==
    /\ r.pc = "done"
    /\ r.response.code = 401
    /\ r.response.message = message
    /\ r.response.verified = FALSE
    /\ r.response.confidence = Zero

VerifyMessages ==
    { "not found in database", "no face data available", "No face detected",
      "Multiple faces detected", "Failed to extract face embedding",
      "Identity verified", "Face matches another identity",
      "Similarity score below threshold" }

\* C13: verify_student gives one outcome, chosen in a fixed order: the student_id
\* is not registered, else the student has no stored embedding, else the frame
\* has no face, else it has several faces, else the face has no embedding, else
\* the comparison with identify; the first five come with verified = false and
\* confidence 0.0, so two faces in the frame of a registered student give
\* "Multiple faces detected" with confidence 0.0.
C13_VerifyPrecedence ==
    [][\A t \in Threads :
        LET r == thread[t]
            n == thread'[t]
        IN  /\ (VerifyStep(t) /\ r.pc # "verify_has_person" /\ r.pc # "identify"
                    /\ n.response.code # 400) =>
                    IF find_by_student_id(n.student_id) = NotFound
                    THEN Stopped(n, "not found in database")
                    ELSE /\ n.pc = "verify_has_person"
                         /\ n.name = find_by_student_id(n.student_id)
            /\ (VerifyStep(t) /\ r.pc = "verify_has_person") =>
                    IF ~has_person(r.name)
                    THEN Stopped(n, "no face data available")
                    ELSE IF Len(r.faces) = 0
                    THEN Stopped(n, "No face detected")
                    ELSE IF Len(r.faces) > 1
                    THEN Stopped(n, "Multiple faces detected")
                    ELSE IF r.faces[1].embedding = None
                    THEN Stopped(n, "Failed to extract face embedding")
                    ELSE n.pc = "identify" /\ n.embedding = r.faces[1].embedding
            /\ (VerifyStep(t) /\ n.pc = "done" /\ n.response.code \in {200, 401}) =>
                    /\ n.response.message \in VerifyMessages
                    /\ r.pc = "identify" <=>
                            n.response.message \in
                                { "Identity verified", "Face matches another identity",
                                  "Similarity score below threshold" }]_vars

\* C13 witness: a verification for a registered student whose stored embedding
\* is there ended with "Multiple faces detected" and confidence 0.0.
C13_Witness ==
    \E t \in Threads :
        /\ Stopped(thread[t], "Multiple faces detected")
        /\ thread[t].op = "verify"
        /\ find_by_student_id(thread[t].student_id) = thread[t].name
        /\ has_person(thread[t].name)

\* a >= b for two scores
ScoreAtLeast(a, b) == ~ScoreGreater(b, a)

\* thread t ends a verification with the comparison
Compared(t) ==
    /\ VerifyStep(t)
    /\ thread[t].pc = "identify"
    /\ thread'[t].pc = "done"
    /\ thread'[t].response.code # 500

\* C14: at the comparison step the verification is verified exactly when
\* identify returns the expected student's name with a score at or above the
\* threshold, which is the caller's threshold when there is one and the
\* configured 0.5 otherwise; when it is not verified, the message names another
\* identity exactly when the matched name differs and the threshold otherwise.
\* A query equal to the only stored embedding is verified at threshold 0.5 and
\* rejected, with the message about the threshold, at threshold 1.01.
C14_ComparisonDecides ==
    [][\A t \in Threads :
        Compared(t) =>
            LET r == thread[t]
                answer == thread'[t].response
                ref == identify(embeddings, r.embedding)
                threshold == IF r.threshold = NoThreshold THEN Score(1, 4) ELSE r.threshold
            IN  /\ answer.matched_name = ref[1]
                /\ answer.confidence = ref[2]
                /\ answer.verified <=> (ref[1] = r.name /\ ScoreAtLeast(ref[2], threshold))
                /\ answer.code = (IF answer.verified THEN 200 ELSE 401)
                /\ answer.verified => answer.message = "Identity verified"
                /\ ~answer.verified =>
                        answer.message = (IF ref[1] # r.name
                                          THEN "Face matches another identity"
                                          ELSE "Similarity score below threshold")
                /\ (embeddings = <<[key |-> r.name, value |-> r.embedding]>>) =>
                        /\ r.threshold \in {NoThreshold, Score(1, 4)} => answer.verified
                        /\ r.threshold = Score(101, 10000) =>
                                answer.message = "Similarity score below threshold"]_vars

\* C14 witness: the frame shows the stored embedding of the student, the only
\* identity of the store, and the verification was rejected for its threshold.
C14_Witness ==
    \E t \in Threads :
        /\ thread[t].op = "verify"
        /\ thread[t].pc = "done"
        /\ thread[t].response.message = "Similarity score below threshold"
        /\ thread[t].response.confidence = Score(1, 1)
        /\ thread[t].response.matched_name = thread[t].name
        /\ embeddings = <<[key |-> thread[t].name, value |-> East]>>

\* C15: a step of verify_student leaves the store as it was: the embeddings and
\* the metadata in memory and the file that holds the snapshot.
C15_VerifyLeavesStore ==
    [][\A t \in Threads :
        VerifyStep(t) =>
            /\ embeddings' = embeddings
            /\ metadata' = metadata
            /\ db_file' = db_file]_vars

\* C15 witness: a verification went through the comparison and was verified,
\* while the other call, a registration, has written its identity and not yet
\* saved it.
C15_Witness ==
    \E t \in Threads, u \in Threads :
        /\ thread[t].op = "verify"
        /\ thread[t].pc = "done"
        /\ thread[t].response.verified
        /\ thread[u].pc = "save_open"
        /\ thread[u].op = "register"
        /\ Len(embeddings) = 2
        /\ db_file # Pickled(embeddings, metadata)

(***************************************************************************)
(* Properties of the face store.                                           *)
(***************************************************************************)
\* thread t takes a step of a registration, by either endpoint
RegistrationStep(t) ==
    thread'[t] # thread[t] /\ thread'[t].op \in {"register", "add_face"}

Refused(r, message) ==
    r.pc = "done" /\ r.response.code = 400 /\ r.response.message = message

\* dict d is kept entry by entry in dict e
KeptIn(d, e) == Len(d) <= Len(e) /\ SubSeq(e, 1, Len(d)) = d

\* C16: a registration whose student_id belongs to a stored identity, or whose
\* name is in the store, is refused as a duplicate and changes nothing; a
\* registration writes only for a name and a student_id the store does not
\* have, so that no stored embedding or metadata is changed by a registration.
C16_DuplicateRefused ==
    [][\A t \in Threads :
        RegistrationStep(t) =>
            LET r == thread[t]
                n == thread'[t]
            IN  /\ (r.pc \in {"idle", "done"} /\ n.op = "register"
                        /\ find_by_student_id(n.student_id) # NotFound) =>
                        Refused(n, "student_id already registered")
                /\ (r.pc = "has_person" /\ has_person(r.name)) =>
                        Refused(n, "already exists in database")
                /\ n.response.code = 400 =>
                        /\ embeddings' = embeddings
                        /\ metadata' = metadata
                        /\ db_file' = db_file
                /\ r.pc = "set_embedding" =>
                        /\ ~has_person(r.name)
                        /\ ~Has(metadata, r.name)
                        /\ r.student_id # "" => find_by_student_id(r.student_id) = NotFound
                /\ KeptIn(embeddings, embeddings')
                /\ KeptIn(metadata, metadata')]_vars

\* C16 witness: a registration with a new student_id and the name of the one
\* stored identity was refused, and the store and its file are as they were.
C16_Witness ==
    \E t \in Threads :
        /\ thread[t].op = "register"
        /\ Refused(thread[t], "already exists in database")
        /\ find_by_student_id(thread[t].student_id) = NotFound
        /\ Keys(embeddings) = {thread[t].name}
        /\ Keys(metadata) = {thread[t].name}
        /\ db_file = Pickled(embeddings, metadata)

Registered(t) == thread[t].pc = "done" /\ thread[t].response.code = 201

\* C17: however registrations overlap, of two requests with the same name or the
\* same student_id at most one succeeds, and no two stored identities carry the
\* same student_id, unless it is empty.
C17_RegistrationsExclude ==
    /\ \A i \in 1..Len(metadata), j \in 1..Len(metadata) :
            (i # j /\ metadata[i].value.student_id # "") =>
                metadata[i].value.student_id # metadata[j].value.student_id
    /\ \A t \in Overlapping, u \in Overlapping :
            (t # u /\ Registered(t) /\ Registered(u)) =>
                /\ thread[t].name # thread[u].name
                /\ thread[t].student_id = "" \/ thread[t].student_id # thread[u].student_id

\* thread t is inside add_person or delete_person of FaceDatabase, between its
\* first write to the dicts and the end of its save
Modifying(t) ==
    thread[t].pc \in {"set_metadata", "del_metadata", "save_open", "save_dump"}

\* thread t is inside the loop of identify
Identifying(t) == thread[t].pc = "identify" /\ thread[t].i > 0

\* C18: while add_person or delete_person modifies the store, no identify and no
\* other write runs: one writer at a time, and no reader beside a writer.
C18_SingleWriter ==
    \A t \in Threads, u \in Threads :
        (t # u /\ Modifying(t)) => (~Modifying(u) /\ ~Identifying(u))

\* C19: a FaceDatabase built on the file while a save runs, or after a save that
\* stopped part-way, loads a complete snapshot, the one before the save or the
\* one after it.
C19_LoadSeesWholeSnapshot == loaded # "EOFError"

\* thread t has completed a mutation: a registration that succeeded or a
\* deletion that removed an identity
Mutated(t) ==
    /\ thread[t].pc = "done"
    /\ thread[t].op \in {"register", "add_face", "delete"}
    /\ thread[t].response.code \in {200, 201}

\* C20: when a mutation has completed, the file holds the whole store: a
\* FaceDatabase loaded from it has the embeddings and the metadata of the store
\* in memory.
C20_SnapshotEqualsStore ==
    \A t \in Threads :
        Mutated(t) =>
            /\ db_file.state = "complete"
            /\ Load(db_file) = [embeddings |-> embeddings, metadata |-> metadata]

\* C20 witness: one of two identities was deleted, and the file holds the one
\* that is left.
C20_Witness ==
    \E t \in Threads :
        /\ Mutated(t)
        /\ thread[t].op = "delete"
        /\ Len(embeddings) = 1
        /\ Len(metadata) = 1
        /\ embeddings[1].key # thread[t].name
        /\ Load(db_file).metadata = metadata

\* the positions of the entries of dict whose similarity to query no other entry
\* exceeds
TopPositions(dict, query) ==
    {i \in 1..Len(dict) :
        \A j \in 1..Len(dict) :
            ~ScoreGreater(Cosine(query, dict[j].value), Cosine(query, dict[i].value))}

\* the reference result: ("Unknown", 0.0) for an empty store, else the first of
\* the entries with the top similarity, and that similarity
ReferenceIdentify(dict, query) ==
    IF dict = <<>> THEN <<"Unknown", Zero>>
    ELSE LET first == CHOOSE i \in TopPositions(dict, query) :
                            \A j \in TopPositions(dict, query) : i <= j
         IN  <<dict[first].key, Cosine(query, dict[first].value)>>

\* C21: identify gives the reference result for every store and query:
\* ("Unknown", 0.0) for an empty store, else the name of the first stored
\* identity with the top similarity and that similarity, also when the top
\* similarity is -1.
C21_IdentifyIsReference ==
    [][\A t \in Threads :
        Compared(t) =>
            /\ thread'[t].response.matched_name
                    = ReferenceIdentify(embeddings, thread[t].embedding)[1]
            /\ thread'[t].response.confidence
                    = ReferenceIdentify(embeddings, thread[t].embedding)[2]]_vars

\* thread t takes a step of a deletion
DeleteStep(t) == thread'[t] # thread[t] /\ thread'[t].op = "delete"

\* the entries of dict other than the one of key, in their order
Without(dict, key) == SelectSeq(dict, LAMBDA entry : entry.key # key)

\* C22: delete_person for a name that is not in the store returns false (the
\* endpoint answers 404) and writes nothing, neither to the dicts nor to the
\* file; for a stored name it removes the embedding and the metadata of that
\* name and of no other, saves, and returns true (the endpoint answers 200)
\* with the file holding the store that is left.
C22_DeleteRemovesOneIdentity ==
    [][\A t \in Threads :
        DeleteStep(t) =>
            LET r == thread[t]
                n == thread'[t]
            IN  /\ (r.pc = "delete_person" /\ ~Has(embeddings, r.name)) =>
                        /\ n.pc = "done"
                        /\ n.response.code = 404
                        /\ embeddings' = embeddings
                        /\ metadata' = metadata
                        /\ db_file' = db_file
                /\ (r.pc = "delete_person" /\ Has(embeddings, r.name)) =>
                        /\ n.pc = "del_embedding"
                        /\ embeddings' = embeddings
                        /\ metadata' = metadata
                        /\ db_file' = db_file
                /\ r.pc = "del_embedding" => embeddings' = Without(embeddings, r.name)
                /\ r.pc = "del_metadata" => metadata' = Without(metadata, r.name)
                /\ r.pc # "del_embedding" => embeddings' = embeddings
                /\ r.pc # "del_metadata" => metadata' = metadata
                /\ (n.pc = "done" /\ r.pc = "save_dump") => n.response.code \in {200, 500}
                /\ (n.pc = "done" /\ n.response.code = 200) =>
                        /\ ~Has(embeddings', n.name)
                        /\ ~Has(metadata', n.name)
                        /\ db_file'.state = "complete"
                        /\ Load(db_file')
                                = [embeddings |-> embeddings', metadata |-> metadata']]_vars

\* C22 witness: An was deleted from a store of two identities: Binh's embedding
\* and metadata are left, in memory and in the file.
C22_Witness ==
    \E t \in Threads :
        /\ thread[t].op = "delete"
        /\ thread[t].name = "An"
        /\ thread[t].pc = "done"
        /\ thread[t].response.code = 200
        /\ Keys(embeddings) = {"Binh"}
        /\ Keys(metadata) = {"Binh"}
        /\ db_file = Pickled(embeddings, metadata)

\* v is the element-wise arithmetic mean of the vectors, in lowest terms
IsMeanOf(v, vectors) ==
    /\ v.d > 0
    /\ v.x * Len(vectors) = SumX(vectors) * v.d
    /\ v.y * Len(vectors) = SumY(vectors) * v.d
    /\ \A g \in 2..v.d : ~(v.x % g = 0 /\ v.y % g = 0 /\ v.d % g = 0)

\* C23: add_person stores for the name the element-wise arithmetic mean of the
\* embeddings it is given, not normalized, and returns their number, which the
\* registration answers as embeddings_used; no list without an embedding gets
\* as far as a write, and a refused registration leaves the store as it was.
C23_StoresMean ==
    [][\A t \in Threads :
        RegistrationStep(t) =>
            LET r == thread[t]
                n == thread'[t]
            IN  /\ n.pc = "set_embedding" => n.vectors # <<>>
                /\ r.pc = "set_embedding" =>
                        /\ r.vectors # <<>>
                        /\ Has(embeddings', r.name)
                        /\ IsMeanOf(Get(embeddings', r.name), r.vectors)
                        /\ Without(embeddings', r.name) = Without(embeddings, r.name)
                        /\ n.count = Len(r.vectors)
                /\ r.pc \in {"set_metadata", "save_open", "save_dump"} =>
                        /\ embeddings' = embeddings
                        /\ n.pc # "done" => n.count = r.count
                /\ (n.pc = "done" /\ n.response.code = 201) =>
                        n.response.embeddings_used = r.count
                /\ (n.pc = "done" /\ n.response.code = 400) =>
                        /\ embeddings' = embeddings
                        /\ metadata' = metadata
                        /\ db_file' = db_file]_vars

\* C23 witness: a registration with the embeddings (1, 0), (0, 1), (0, 1) was
\* answered with embeddings_used = 3, and the store holds (1/3, 2/3) for its
\* name, a vector whose length is not 1.
C23_Witness ==
    \E t \in Threads :
        /\ thread[t].op = "register"
        /\ thread[t].pc = "done"
        /\ thread[t].response.code = 201
        /\ thread[t].response.embeddings_used = 3
        /\ Has(embeddings, thread[t].name)
        /\ Get(embeddings, thread[t].name) = [x |-> 1, y |-> 2, d |-> 3]

\* C24: a registration request with fewer than 3 images is refused with the
\* store as it was, by either endpoint, so every registration that succeeded
\* carried at least 3 images.
C24_ThreeImagesAtBoundary ==
    \A t \in Threads :
        (thread[t].pc = "done" /\ thread[t].op \in {"register", "add_face"}
            /\ thread[t].response.code = 201) =>
                thread[t].response.processed_images >= 3

\* the answer NO_PROFILE_EMBEDDING of a verification
NoProfileEmbedding(r) ==
    r.op = "verify" /\ r.pc = "done" /\ r.response.message = "no face data available"

\* C29: the names with metadata are the names with an embedding whenever no
\* add_person or delete_person is between its writes, and no verification is
\* answered NO_PROFILE_EMBEDDING, however a verification, a registration and a
\* deletion overlap.
C29_MetadataHasEmbedding ==
    /\ (\A t \in Threads :
            thread[t].pc \notin {"set_metadata", "del_metadata"}) =>
                Keys(metadata) = Keys(embeddings)
    /\ \A t \in Threads : ~NoProfileEmbedding(thread[t])

(***************************************************************************)
(* Properties of the classifier.                                           *)
(***************************************************************************)
GazeTypes == {"Mat nhin len", "Mat nhin xuong", "Mat nhin trai", "Mat nhin phai",
              "Mat nhin sang cho khac"}

HeadTypes == {"Dau ngang len", "Dau cui xuong", "Dau quay trai", "Dau quay phai",
              "Cu dong dau bat thuong"}

CriticalTypes == {"Nhieu khuon mat trong khung hinh", "Khong phat hien khuon mat",
                  "Phat hien nguoi la", "Phat hien vat dung kha nghi"}

HasPhrase(flag, p) == \E i \in DOMAIN flag : LowerPhrase(flag[i]) = p

MatchesGaze(flag) == HasPhrase(flag, "gaze") /\ ~HasPhrase(flag, "center")

MatchesHead(flag) == HasPhrase(flag, "head orientation")

OneKnownFaceNoObjects ==
    /\ Len(result.faces) = 1
    /\ result.faces[1].label # "Unknown"
    /\ result.objects = <<>>

WasClassified == classified # NotClassified

\* positions of the flags that match the gaze pattern / either pattern
GazePositions == {i \in DOMAIN result.flags : MatchesGaze(result.flags[i])}

EitherPositions ==
    {i \in DOMAIN result.flags :
        MatchesGaze(result.flags[i]) \/ MatchesHead(result.flags[i])}

Least(S) == CHOOSE i \in S : \A j \in S : i <= j

\* the gaze label the sub-direction of a flag asks for (up, down, left, right in
\* that order when several occur)
GazeLabelOf(flag) ==
    CASE HasPhrase(flag, "looking up") -> "Mat nhin len"
      [] ~HasPhrase(flag, "looking up") /\ HasPhrase(flag, "looking down") -> "Mat nhin xuong"
      [] ~HasPhrase(flag, "looking up") /\ ~HasPhrase(flag, "looking down")
            /\ HasPhrase(flag, "looking left") -> "Mat nhin trai"
      [] ~HasPhrase(flag, "looking up") /\ ~HasPhrase(flag, "looking down")
            /\ ~HasPhrase(flag, "looking left") /\ HasPhrase(flag, "looking right")
            -> "Mat nhin phai"
      [] OTHER -> "Mat nhin sang cho khac"

\* C6: the first of the rules (1) more than one face, (2) no face, (3) first face
\* Unknown, (4) objects present that matches decides the outcome, whatever the
\* inputs of the later rules are; all four are critical.
C6_FirstCriticalRuleWins ==
    WasClassified =>
        /\ Len(result.faces) > 1 =>
                classified = <<"Nhieu khuon mat trong khung hinh", "critical">>
        /\ Len(result.faces) = 0 =>
                classified = <<"Khong phat hien khuon mat", "critical">>
        /\ (Len(result.faces) = 1 /\ result.faces[1].label = "Unknown") =>
                classified = <<"Phat hien nguoi la", "critical">>
        /\ (Len(result.faces) = 1 /\ result.faces[1].label # "Unknown"
                /\ result.objects # <<>>) =>
                classified = <<"Phat hien vat dung kha nghi", "critical">>

\* C6 witness: two faces together with an object and a gaze flag were classified
\* as multiple faces.
C6_Witness ==
    /\ WasClassified
    /\ Len(result.faces) = 2
    /\ result.objects # <<>>
    /\ GazePositions # {}
    /\ classified[1] = "Nhieu khuon mat trong khung hinh"

\* C7 as claimed: with one known face and no objects, a gaze type is returned
\* whenever some flag matches the gaze pattern, wherever it stands in the list,
\* and a head-orientation type only when no flag matches the gaze pattern.
C7_GazeBeatsHeadAnywhere ==
    (WasClassified /\ OneKnownFaceNoObjects) =>
        /\ GazePositions # {} => classified[1] \in GazeTypes
        /\ classified[1] \in HeadTypes => GazePositions = {}

\* C7 amended: with one known face and no objects, the first flag in list order
\* that matches the gaze pattern or the head-orientation pattern decides; gaze has
\* priority over head orientation only inside that one flag.
C7_FirstMatchingFlagDecides ==
    (WasClassified /\ OneKnownFaceNoObjects /\ EitherPositions # {}) =>
        LET first == result.flags[Least(EitherPositions)]
        IN  /\ MatchesGaze(first) => classified[1] \in GazeTypes
            /\ ~MatchesGaze(first) => classified[1] \in HeadTypes
            /\ classified[2] = "medium"

\* C7 witness: a head-orientation flag stands before a gaze flag and a
\* head-orientation type was returned.
C7_Witness ==
    /\ WasClassified
    /\ OneKnownFaceNoObjects
    /\ Len(result.flags) = 2
    /\ MatchesHead(result.flags[1]) /\ ~MatchesGaze(result.flags[1])
    /\ MatchesGaze(result.flags[2])
    /\ classified[1] \in HeadTypes

\* C8 as claimed: with one known face and no objects, the first flag in list order
\* that matches the gaze pattern determines the type by its sub-direction, with
\* severity medium.
C8_FirstGazeFlagDecides ==
    (WasClassified /\ OneKnownFaceNoObjects /\ GazePositions # {}) =>
        classified = <<GazeLabelOf(result.flags[Least(GazePositions)]), "medium">>

\* C8 amended: the same, provided no flag matching the head-orientation pattern
\* stands before the first flag that matches the gaze pattern; the sub-direction
\* is the first of up, down, left, right the flag mentions, and the generic gaze
\* label when it mentions none.
C8_FirstGazeFlagDecidesUnlessHeadBefore ==
    (WasClassified /\ OneKnownFaceNoObjects /\ GazePositions # {}
        /\ Least(EitherPositions) = Least(GazePositions)) =>
        classified = <<GazeLabelOf(result.flags[Least(GazePositions)]), "medium">>

\* C8 witness: flags = ["gaze: looking left"] gave the left gaze type, medium.
C8_Witness ==
    /\ OneKnownFaceNoObjects
    /\ result.flags = << <<"gaze", "looking left">> >>
    /\ classified = <<"Mat nhin trai", "medium">>

\* C9: the classifier always returns one of its labels with severity critical or
\* medium, and it returns the default "other violation"/medium exactly when the
\* bundle has one known face, no objects and no flag matching the gaze pattern
\* or the head-orientation pattern.
C9_DefaultExactlyWhenNoRuleFires ==
    WasClassified =>
        /\ \/ classified[1] \in CriticalTypes /\ classified[2] = "critical"
           \/ classified[1] \in GazeTypes \cup HeadTypes \cup {"Vi pham khac"}
                /\ classified[2] = "medium"
        /\ classified = <<"Vi pham khac", "medium">>
                <=> (OneKnownFaceNoObjects /\ EitherPositions = {})

\* C9 witness: one known face, no objects, a centered-gaze flag and a flag with
\* a direction only: the default was returned.
C9_Witness ==
    /\ OneKnownFaceNoObjects
    /\ result.flags = << <<"Gaze", "center">>, <<"looking left">> >>
    /\ classified = <<"Vi pham khac", "medium">>

====
